---- MODULE Spec2Model ----
(***************************************************************************)
(* A model of pyEvalData/io/palxfel.py: the PalSpecFile discovery loop     *)
(* (parse_folders / Update), the line parser (Parse) and the per-scan data *)
(* reader (PalSpecScan.ReadData).                                          *)
(*                                                                         *)
(* Text is modelled as sequences of one-character strings, files as byte   *)
(* streams (their lines joined with "\n"), and the regular expressions of  *)
(* the source as predicates and tokenizers over such sequences.            *)
(***************************************************************************)
EXTENDS Integers, Sequences, FiniteSets, TLC

(***************************************************************************)
(* Characters and the str / re primitives the source uses                  *)
(***************************************************************************)

Digits == {"0", "1", "2", "3", "4", "5", "6", "7", "8", "9"}

Lower == {"a", "b", "c", "d", "e", "f", "g", "h", "i", "j", "k", "l", "m",
          "n", "o", "p", "q", "r", "s", "t", "u", "v", "w", "x", "y", "z"}

Upper == {"A", "B", "C", "D", "E", "F", "G", "H", "I", "J", "K", "L", "M",
          "N", "O", "P", "Q", "R", "S", "T", "U", "V", "W", "X", "Y", "Z"}

\* \s of the re module and the characters str.strip() removes
Blanks == {" ", "\t", "\n", "\r"}

\* the class [a-zA-Z0-9: .] of SPEC_scanbroken and SPEC_scanresumed
AbortClass == Lower \cup Upper \cup Digits \cup {":", " ", "."}

NL == "\n"

\* the one element of a one-element set. { F(x) : x \in {e} } evaluates e once
\* and F on its value: The(...) of it is F(e)
The(S) == CHOOSE x \in S : TRUE

\* s[i..] (empty when i is past the end)
From(s, i) == SubSeq(s, i, Len(s))

\* re.match of a literal prefix p at the start of s
StartsWith(s, p) == Len(s) >= Len(p) /\ SubSeq(s, 1, Len(p)) = p

\* the literal p occurs in s at position i
OccursAt(s, p, i) == i >= 1 /\ i + Len(p) - 1 <= Len(s) /\ SubSeq(s, i, i + Len(p) - 1) = p

\* str.strip()
RECURSIVE LStrip(_)
LStrip(s) == IF s # <<>> /\ Head(s) \in Blanks THEN LStrip(Tail(s)) ELSE s

RECURSIVE RStrip(_)
RStrip(s) == IF s # <<>> /\ s[Len(s)] \in Blanks THEN RStrip(SubSeq(s, 1, Len(s) - 1)) ELSE s

Strip(s) == RStrip(LStrip(s))

\* the last index of the run of characters of class cls that starts at i
\* (i - 1 when s[i] is not in cls)
RECURSIVE RunEnd(_, _, _)
RunEnd(s, i, cls) == IF i <= Len(s) /\ s[i] \in cls THEN RunEnd(s, i + 1, cls) ELSE i - 1

\* re.split on runs of at least minrun blanks: cur is the field being read
RECURSIVE SplitAt(_, _, _, _)
SplitAt(s, i, cur, minrun) ==
    IF i > Len(s) THEN <<cur>>
    ELSE IF s[i] \in Blanks
         THEN LET j == RunEnd(s, i, Blanks)
              IN  IF j - i + 1 >= minrun
                  THEN <<cur>> \o SplitAt(s, j + 1, <<>>, minrun)
                  ELSE SplitAt(s, j + 1, cur \o SubSeq(s, i, j), minrun)
         ELSE SplitAt(s, i + 1, Append(cur, s[i]), minrun)

\* SPEC_multi_blank = re.compile(r"\s+"), as used by .split
SPEC_multi_blank_split(s) == The({SplitAt(x, 1, <<>>, 1) : x \in {s}})

\* SPEC_multi_blank2 = re.compile(r"\s\s+"), as used by .split
SPEC_multi_blank2_split(s) == The({SplitAt(x, 1, <<>>, 2) : x \in {s}})

\* SPEC_multi_blank.sub(" ", s): every run of blanks becomes one space
RECURSIVE SPEC_multi_blank_sub(_)
SPEC_multi_blank_sub(s) ==
    IF s = <<>> THEN <<>>
    ELSE IF Head(s) \in Blanks
         THEN <<" ">> \o SPEC_multi_blank_sub(From(s, RunEnd(s, 1, Blanks) + 1))
         ELSE <<Head(s)>> \o SPEC_multi_blank_sub(Tail(s))

\* the maximal runs of digits of s, left to right
RECURSIVE DigitRuns(_, _)
DigitRuns(s, i) ==
    IF i > Len(s) THEN <<>>
    ELSE IF s[i] \in Digits
         THEN LET j == RunEnd(s, i, Digits)
              IN  <<SubSeq(s, i, j)>> \o DigitRuns(s, j + 1)
         ELSE DigitRuns(s, i + 1)

\* SPEC_int_value = re.compile(r"[+-]?\d+"), as used by .findall, on text
\* without sign characters
SPEC_int_value_findall(s) == The({DigitRuns(x, 1) : x \in {s}})

\* SPEC_num_value, as used by .findall, on text without sign characters,
\* ".", "e", "E" next to digits and the literals inf / nan: there the
\* pattern [+-]?\d*\.*\d*[eE]*[+-]*\d+ matches exactly the runs of digits
SPEC_num_value_findall(s) == The({DigitRuns(x, 1) : x \in {s}})

DigitValue(c) ==
    CASE c = "0" -> 0 [] c = "1" -> 1 [] c = "2" -> 2 [] c = "3" -> 3
      [] c = "4" -> 4 [] c = "5" -> 5 [] c = "6" -> 6 [] c = "7" -> 7
      [] c = "8" -> 8 [] c = "9" -> 9

\* a token int() and float() accept: here the unsigned decimal integers
IsNumber(tok) == tok # <<>> /\ \A i \in 1..Len(tok) : tok[i] \in Digits

\* int(tok) / float(tok) of such a token
RECURSIVE NumberOf(_)
NumberOf(tok) ==
    IF tok = <<>> THEN 0
    ELSE 10 * NumberOf(SubSeq(tok, 1, Len(tok) - 1)) + DigitValue(tok[Len(tok)])

(***************************************************************************)
(* The regular expressions of the module                                   *)
(***************************************************************************)

\* SPEC_time_format = re.compile(r"\d\d:\d\d:\d\d")
TimeAt(s, i) ==
    /\ i + 7 <= Len(s)
    /\ \A k \in {0, 1, 3, 4, 6, 7} : s[i + k] \in Digits
    /\ s[i + 2] = ":" /\ s[i + 5] = ":"

\* the matches of SPEC_time_format in s (non-overlapping, left to right)
RECURSIVE SPEC_time_format_findall(_, _)
SPEC_time_format_findall(s, i) ==
    IF i > Len(s) THEN <<>>
    ELSE IF TimeAt(s, i)
         THEN <<SubSeq(s, i, i + 7)>> \o SPEC_time_format_findall(s, i + 8)
         ELSE SPEC_time_format_findall(s, i + 1)

\* SPEC_time_format.sub("", s)
RECURSIVE SPEC_time_format_sub(_, _)
SPEC_time_format_sub(s, i) ==
    IF i > Len(s) THEN <<>>
    ELSE IF TimeAt(s, i)
         THEN SPEC_time_format_sub(s, i + 8)
         ELSE <<s[i]>> \o SPEC_time_format_sub(s, i + 1)

\* SPEC_dataline = re.compile(r"^[+-]*\d.*")
SPEC_dataline(s) ==
    LET j == RunEnd(s, 1, {"+", "-"}) + 1
    IN  j <= Len(s) /\ s[j] \in Digits

\* SPEC_scan = re.compile(r"^#RUN")
SPEC_scan(s) == StartsWith(s, <<"#", "R", "U", "N">>)

\* SPEC_cmd = re.compile(r"^#CMD")
\* a variant in which a line that holds an abort notice is no command line
SPEC_cmdUnlessAborted(s) == StartsWith(s, <<"#", "C", "M", "D">>) /\ ~\E i \in 1..Len(s) : OccursAt(s, <<"S", "c", "a", "n", " ", "a", "b", "o", "r", "t", "e", "d">>, i)

SPEC_cmd(s) == StartsWith(s, <<"#", "C", "M", "D">>)

\* SPEC_initmoponames = re.compile(r"#MOT"), used with .match
SPEC_initmoponames(s) == StartsWith(s, <<"#", "M", "O", "T">>)

\* SPEC_initmopopos = re.compile(r"#VAL"), used with .match
SPEC_initmopopos(s) == StartsWith(s, <<"#", "V", "A", "L">>)

\* SPEC_datetime = re.compile(r"^#TIM")
SPEC_datetime(s) == StartsWith(s, <<"#", "T", "I", "M">>)

\* SPEC_exptime = re.compile(r"^#T")
SPEC_exptime(s) == StartsWith(s, <<"#", "T">>)

\* SPEC_colnames = re.compile(r"^#COL")
SPEC_colnames(s) == StartsWith(s, <<"#", "C", "O", "L">>)

\* SPEC_MCAFormat = re.compile(r"^#@MCA")
SPEC_MCAFormat(s) == StartsWith(s, <<"#", "@", "M", "C", "A">>)

\* SPEC_MCAChannels = re.compile(r"^#@CHANN")
SPEC_MCAChannels(s) == StartsWith(s, <<"#", "@", "C", "H", "A", "N", "N">>)

\* SPEC_headerline = re.compile(r"^#")
SPEC_headerline(s) == StartsWith(s, <<"#">>)

\* SPEC_commentline = re.compile(r"#ATT"), used with .match
SPEC_commentline(s) == StartsWith(s, <<"#", "A", "T", "T">>)

\* SPEC_newheader = re.compile(r"^#E")
SPEC_newheader(s) == StartsWith(s, <<"#", "E">>)

\* SPEC_errorbm20 = re.compile(r"^MI:")
SPEC_errorbm20(s) == StartsWith(s, <<"M", "I", ":">>)

\* "#C[a-zA-Z0-9: .]*" followed by the literal tail, matched at position i
MarkerAt(s, i, tail) ==
    /\ OccursAt(s, <<"#", "C">>, i)
    /\ \E j \in (i + 2)..(Len(s) + 1) :
          /\ OccursAt(s, tail, j)
          /\ \A k \in (i + 2)..(j - 1) : s[k] \in AbortClass

Aborted == <<"S", "c", "a", "n", " ", "a", "b", "o", "r", "t", "e", "d">>

Resumed == <<"S", "c", "a", "n", " ", "r", "e", "s", "u", "m", "e", "d">>

\* SPEC_scanbroken = re.compile(r"#C[a-zA-Z0-9: .]*Scan aborted"),
\* used as .findall(line) != []: a match anywhere in the line
SPEC_scanbroken(s) == \E i \in 1..Len(s) : MarkerAt(s, i, Aborted)

\* SPEC_scanresumed = re.compile(r"#C[a-zA-Z0-9: .]*Scan resumed"),
\* used with .match: a match at the start of the line
SPEC_scanresumed(s) == MarkerAt(s, 1, Resumed)

(***************************************************************************)
(* Files: the lines a producer can write, and files as byte streams        *)
(***************************************************************************)

\* the text of each line the producer can write (without its line break)
LineText(l) ==
    CASE l = "E"      -> <<"#", "E">>
      [] l = "MOT"    -> <<"#", "M", "O", "T", " ", "m", " ", " ", "n">>
      [] l = "RUN1"   -> <<"#", "R", "U", "N", " ", "1">>
      [] l = "RUN2"   -> <<"#", "R", "U", "N", " ", "2">>
      [] l = "CMD"    -> <<"#", "C", "M", "D", " ", "a">>
      [] l = "CMDB"   -> <<"#", "C", "M", "D", " ", "b">>
      [] l = "TIM"    -> <<"#", "T", "I", "M", " ", "d", " ", "1", "2", ":", "0", "0", ":", "0", "0">>
      [] l = "T"      -> <<"#", "T", " ", "5">>
      [] l = "VAL"    -> <<"#", "V", "A", "L", " ", "1", " ", "2">>
      [] l = "VALE"   -> <<"#", "V", "A", "L">>
      [] l = "VALX"   -> <<"#", "V", "A", "L", " ", "3", " ", "x">>
      [] l = "COL"    -> <<"#", "C", "O", "L", " ", "a", " ", "b">>
      [] l = "MCA"    -> <<"#", "@", "M", "C", "A", " ", "2">>
      [] l = "CHANN"  -> <<"#", "@", "C", "H", "A", "N", "N", " ", "3", " ", "0", " ", "2">>
      [] l = "ABORT"  -> <<"#", "C", " ">> \o Aborted
      [] l = "RESUME" -> <<"#", "C", " ">> \o Resumed
      [] l = "ATT"    -> <<"#", "A", "T", "T">>
      [] l = "ROW"    -> <<"1", " ", "2">>
      [] l = "ROWB"   -> <<" ", "3", " ", "4">>
      [] l = "ROW1"   -> <<"7">>
      [] l = "SPEC1"  -> <<"8", " ", "9">>
      [] l = "SPEC2"  -> <<"6">>
      [] l = "FOO"    -> <<"f", "o", "o">>
      [] l = "CMDAB"  -> <<"#", "C", "M", "D", " ", "#", "C", " ">> \o Aborted

\* the bytes of a file whose lines are ls, each ended by a line break
RECURSIVE Bytes(_)
Bytes(ls) == IF ls = <<>> THEN <<>> ELSE LineText(Head(ls)) \o <<NL>> \o Bytes(Tail(ls))

\* the byte offset at which line i of such a file begins
RECURSIVE OffsetOf(_, _)
OffsetOf(ls, i) == IF i <= 1 THEN 0 ELSE OffsetOf(ls, i - 1) + Len(LineText(ls[i - 1])) + 1

\* fid.seek(p, 0) followed by "for line in fid": the raw lines from byte
\* offset p on, each with its line break (the first one may be the rest of a
\* line when p is not a line start)
RECURSIVE LinesAt(_, _)
LinesAt(b, p) ==
    IF p >= Len(b) THEN <<>>
    ELSE LET e == RunEnd(b, p + 1, {b[k] : k \in 1..Len(b)} \ {NL}) + 1
         IN  <<SubSeq(b, p + 1, IF e > Len(b) THEN Len(b) ELSE e)>> \o LinesAt(b, e)

LinesFrom(b, p) == The({LinesAt(x, p) : x \in {b}})

(***************************************************************************)
(* PalSpecScan objects                                                     *)
(***************************************************************************)

\* Python's None, for an offset (offsets are >= 0)
None == -1

\* numpy.nan, for an integration time (integration times are >= 0)
NaN == -2

\* a scan's data attribute before a table was read (None); a table that was
\* read holds at least one row
NoTable == <<>>

\* PalSpecScan(name, scannr, command, date, time, itime, colnames, hoffset,
\* doffset, fname, imopnames, imopvalues, scan_status): the initialiser hands
\* its arguments to the base class, which stores them and starts the scan
\* with no data and no MCA parameters. name is "scan_<scannr>"; fname is
\* given by the number of the file.
PalSpecScan(scannr, command, date, time, itime, colnames, hoffset, doffset, fname, imopnames, imopvalues, scan_status) ==
    [nr |-> scannr, command |-> command, date |-> date, time |-> time,
     itime |-> itime, colnames |-> colnames, hoffset |-> hoffset,
     doffset |-> doffset, fname |-> fname, imopnames |-> imopnames,
     imopvalues |-> imopvalues, scan_status |-> scan_status,
     ischanged |-> TRUE, data |-> NoTable, has_mca |-> FALSE,
     mca_column_format |-> 0, mca_channels |-> 0, mca_start_channel |-> 0,
     mca_stop_channel |-> 0, mca_nof_lines |-> 0]

\* SPECScan.SetMCAParams of the base class: the number of lines that hold one
\* spectrum is ceil(mca_channels / mca_column_format)
SetMCAParams(s, mca_column_format, mca_channels, mca_start, mca_stop) ==
    [s EXCEPT !.has_mca = TRUE,
              !.mca_column_format = mca_column_format,
              !.mca_channels = mca_channels,
              !.mca_start_channel = mca_start,
              !.mca_stop_channel = mca_stop,
              !.mca_nof_lines = (mca_channels \div mca_column_format) +
                                (IF mca_channels % mca_column_format # 0 THEN 1 ELSE 0)]

(***************************************************************************)
(* PalSpecScan.ReadData                                                    *)
(***************************************************************************)

\* the names bound in the module's namespace (lines 25-32 and the classes,
\* regular expressions and scan_status_flags defined below them): numpy is
\* imported as np, and "import numpy" at line 398 binds a local of Parse only
ModuleGlobals == {"os", "SPECFile", "SPECScan", "xu_open", "config", "re", "np", "Spec"}

\* lines 73-79: the number of names of type_desc
TypeDescNames(s) == Len(s.colnames) + (IF s.has_mca THEN 1 ELSE 0)

RECURSIVE NumbersOf(_)
NumbersOf(toks) == IF toks = <<>> THEN <<>> ELSE <<NumberOf(Head(toks))>> \o NumbersOf(Tail(toks))

\* lines 87-160: the loop over the lines after doffset. rd holds the locals
\* (record_list, mca_counter, scan_aborted_flag, line_list, mca_tmp_list)
\* and the scan's status
RECURSIVE ReadLoop(_, _, _)
ReadTurn(s, rd, line, rest) ==
         IF line = <<>> THEN ReadLoop(s, rd, rest)
             ELSE IF SPEC_scanbroken(line) \/ rd.scan_aborted_flag
             THEN IF ~rd.scan_aborted_flag
                  THEN ReadLoop(s, [rd EXCEPT !.scan_aborted_flag = TRUE, !.scan_status = "ABORTED"], rest)
                  ELSE IF SPEC_scanresumed(line)
                  THEN ReadLoop(s, [rd EXCEPT !.scan_aborted_flag = FALSE, !.scan_status = "OK"], rest)
                  ELSE IF SPEC_commentline(line) \/ SPEC_errorbm20(line)
                  THEN ReadLoop(s, rd, rest)
                  ELSE rd
             ELSE IF SPEC_headerline(line) \/ SPEC_commentline(line)
             THEN IF SPEC_scanresumed(line) \/ SPEC_commentline(line)
                  THEN ReadLoop(s, rd, rest)
                  ELSE rd
             ELSE IF rd.mca_counter = 0
             THEN LET line_list == NumbersOf(SPEC_num_value_findall(line))
                  IN  IF s.has_mca
                      THEN ReadLoop(s, [rd EXCEPT !.line_list = line_list,
                                                  !.mca_counter = 1,
                                                  !.mca_tmp_list = <<>>], rest)
                      ELSE ReadLoop(s, [rd EXCEPT !.line_list = line_list,
                                                  !.record_list = Append(rd.record_list, line_list)], rest)
             ELSE LET tmp == rd.mca_tmp_list \o NumbersOf(SPEC_int_value_findall(line))
                  IN  IF rd.mca_counter + 1 > s.mca_nof_lines
                      THEN ReadLoop(s, [rd EXCEPT !.mca_tmp_list = tmp,
                                                  !.mca_counter = 0,
                                                  !.record_list = Append(rd.record_list, Append(rd.line_list, tmp))], rest)
                      ELSE ReadLoop(s, [rd EXCEPT !.mca_tmp_list = tmp,
                                                  !.mca_counter = rd.mca_counter + 1], rest)

ReadLoop(s, rd, lines) ==
    IF lines = <<>> THEN rd
    ELSE The({ReadTurn(s, x[1], x[2], x[3]) : x \in {<<rd, Strip(Head(lines)), Tail(lines)>>}})

\* numpy.rec.fromrecords(record_list, dtype=type_desc) raises ValueError when
\* a row does not fit the dtype: a row of another length than the names, or
\* a spectrum of another length than mca_channels
FitsDtype(s, row) ==
    /\ Len(row) = TypeDescNames(s)
    /\ s.has_mca => Len(row[Len(row)]) = s.mca_channels

\* lines 162-177: the table is built when the first row has as many fields as
\* type_desc has names and fromrecords accepts the rows
BuildTable(s, rd) ==
    IF rd.record_list = <<>> THEN [scan |-> [s EXCEPT !.scan_status = rd.scan_status], exc |-> "IndexError"]
    ELSE IF Len(rd.record_list[1]) = TypeDescNames(s) /\ \A k \in 1..Len(rd.record_list) : FitsDtype(s, rd.record_list[k])
    THEN [scan |-> [s EXCEPT !.scan_status = rd.scan_status, !.data = rd.record_list], exc |-> ""]
    ELSE [scan |-> [s EXCEPT !.scan_status = "NODATA"], exc |-> ""]

\* PalSpecScan.ReadData on the file whose bytes are b: the scan after the
\* call and the exception that ended it ("" when it returned). The header
\* attribute (lines 64-68, the stripped header lines) is left out: nothing
\* reads it. Building type_desc (lines 73-79) reads the global name numpy.
ReadData(s, b) ==
    IF s.scan_status = "NODATA"
    THEN [scan |-> [s EXCEPT !.data = NoTable], exc |-> ""]
    ELSE IF "numpy" \notin ModuleGlobals
         THEN [scan |-> s, exc |-> "NameError"]
         ELSE BuildTable(s, ReadLoop(s, [record_list |-> <<>>, mca_counter |-> 0,
                                         scan_aborted_flag |-> FALSE, line_list |-> <<>>,
                                         mca_tmp_list |-> <<>>, scan_status |-> s.scan_status],
                                     LinesFrom(b, s.doffset)))

(***************************************************************************)
(* PalSpecFile.Parse                                                       *)
(*                                                                         *)
(* The parser's state is a record: the fields of self that Parse reads and *)
(* writes, the locals of Parse, the set `bound` of the locals that were    *)
(* assigned (Python raises UnboundLocalError on reading any other), and    *)
(* exc, the exception that ended the call ("" while none was raised).      *)
(***************************************************************************)

\* a variant of ParseStart that begins every Parse with an empty scan_list
ParseStartFresh(self) ==
    [scan_list |-> <<>>, last_offset |-> self.last_offset,
     init_motor_names_fh |-> self.init_motor_names_fh,
     init_motor_names_sh |-> self.init_motor_names_sh,
     init_motor_names |-> self.init_motor_names,
     full_filename |-> self.full_filename,
     scan_started |-> FALSE, scan_has_mca |-> FALSE, init_motor_values |-> <<>>,
     bound |-> {}, scannr |-> 0, scancmd |-> <<>>, date |-> <<>>, time |-> <<>>,
     itime |-> NaN, col_names |-> <<>>, scan_header_offset |-> 0,
     scan_status |-> "", mca_col_number |-> 0, mca_channels |-> 0,
     mca_start |-> 0, mca_stop |-> 0, exc |-> ""]

\* the state in which Parse enters its loop (lines 399-406)
ParseStart(self) ==
    [scan_list |-> self.scan_list, last_offset |-> self.last_offset,
     init_motor_names_fh |-> self.init_motor_names_fh,
     init_motor_names_sh |-> self.init_motor_names_sh,
     init_motor_names |-> self.init_motor_names,
     full_filename |-> self.full_filename,
     scan_started |-> FALSE, scan_has_mca |-> FALSE, init_motor_values |-> <<>>,
     bound |-> {}, scannr |-> 0, scancmd |-> <<>>, date |-> <<>>, time |-> <<>>,
     itime |-> NaN, col_names |-> <<>>, scan_header_offset |-> 0,
     scan_status |-> "", mca_col_number |-> 0, mca_channels |-> 0,
     mca_start |-> 0, mca_stop |-> 0, exc |-> ""]

Raise(st, e) == [st EXCEPT !.exc = e]

\* all occurrences of the literal p removed from s (re.sub of a literal)
RECURSIVE RemoveAll(_, _)
RemoveAll(s, p) ==
    IF s = <<>> THEN <<>>
    ELSE IF StartsWith(s, p) THEN RemoveAll(From(s, Len(p) + 1), p)
         ELSE <<Head(s)>> \o RemoveAll(Tail(s), p)

\* a variant in which a token that is no number empties the list
AppendFloatsOrClear(vals, toks) ==
    IF \A i \in 1..Len(toks) : IsNumber(toks[i])
    THEN vals \o [i \in 1..Len(toks) |-> NumberOf(toks[i])]
    ELSE <<>>

\* "for value in line_list: init_motor_values.append(float(value))" inside
\* try / except ValueError: the values before the first bad token are kept
RECURSIVE AppendFloats(_, _)
AppendFloats(vals, toks) ==
    IF toks = <<>> \/ ~IsNumber(Head(toks)) THEN vals
    ELSE AppendFloats(Append(vals, NumberOf(Head(toks))), Tail(toks))

\* lines 437-454 and 597-605: a scan-start line opens a scan; reset_times is
\* TRUE on the first path only, which also resets itime and time (446-447)
\* a variant that does not seed the names of the scan from those of the file
StartScanNoSeed(st, line, reset_times) ==
    LET line_list == SPEC_multi_blank_split(line)
    IN  IF Len(line_list) < 2 THEN Raise(st, "IndexError")
        ELSE IF ~IsNumber(line_list[2]) THEN Raise(st, "ValueError")
        ELSE LET t == [st EXCEPT !.scannr = NumberOf(line_list[2]),
                                 !.scan_started = TRUE,
                                 !.scan_has_mca = FALSE,
                                 !.scan_header_offset = st.last_offset,
                                 !.scan_status = "OK",
                                 !.init_motor_names_sh = <<>>]
             IN  IF reset_times
                 THEN [t EXCEPT !.itime = NaN, !.time = <<>>,
                                !.bound = st.bound \cup {"itime", "time"}]
                 ELSE t

StartScan(st, line, reset_times) ==
    LET line_list == SPEC_multi_blank_split(line)
    IN  IF Len(line_list) < 2 THEN Raise(st, "IndexError")
        ELSE IF ~IsNumber(line_list[2]) THEN Raise(st, "ValueError")
        ELSE LET t == [st EXCEPT !.scannr = NumberOf(line_list[2]),
                                 !.scan_started = TRUE,
                                 !.scan_has_mca = FALSE,
                                 !.scan_header_offset = st.last_offset,
                                 !.scan_status = "OK",
                                 !.init_motor_names_sh = <<>>,
                                 !.init_motor_names = st.init_motor_names_fh]
             IN  IF reset_times
                 THEN [t EXCEPT !.itime = NaN, !.time = <<>>,
                                !.bound = st.bound \cup {"itime", "time"}]
                 ELSE t

\* the locals a PalSpecScan(...) call of Parse reads (lines 532-536, 558-562,
\* 580-584); time and itime are assigned at the first scan start
ScanArgsBound(st) == {"scancmd", "date", "col_names"} \subseteq st.bound

\* lines 540-544, 569-573, 587-591: the control flags after a scan was stored
ResetFlags(st) ==
    [st EXCEPT !.scan_started = FALSE, !.scan_has_mca = FALSE, !.init_motor_values = <<>>]

\* a variant of NewScan that exchanges the header offset and the data offset
NewScanSwapped(st, doffset, status) ==
    PalSpecScan(st.scannr, st.scancmd, st.date, st.time, st.itime, st.col_names,
                doffset, st.scan_header_offset, st.full_filename,
                st.init_motor_names, st.init_motor_values, status)

\* the scan object Parse builds from its locals, with the given data offset
\* and status
NewScan(st, doffset, status) ==
    PalSpecScan(st.scannr, st.scancmd, st.date, st.time, st.itime, st.col_names,
                st.scan_header_offset, doffset, st.full_filename,
                st.init_motor_names, st.init_motor_values, status)

\* lines 526-544: an abort notice in an open scan header stores the scan as
\* NODATA, with the offset of the notice as its data offset
AbortScan(st) ==
    IF ~ScanArgsBound(st) THEN Raise(st, "UnboundLocalError")
    ELSE ResetFlags([st EXCEPT !.scan_list = Append(st.scan_list, NewScan(st, st.last_offset, "NODATA"))])

\* lines 546-573: the first data line of an open scan ends its header and
\* stores the scan
DataLine(st) ==
    IF ~ScanArgsBound(st) THEN Raise(st, "UnboundLocalError")
    ELSE IF st.scan_has_mca /\ ~({"mca_channels", "mca_start", "mca_stop"} \subseteq st.bound)
    THEN Raise(st, "UnboundLocalError")
    ELSE LET s0 == NewScan(st, st.last_offset, st.scan_status)
             s  == IF st.scan_has_mca
                   THEN SetMCAParams(s0, st.mca_col_number, st.mca_channels, st.mca_start, st.mca_stop)
                   ELSE s0
         IN  ResetFlags([st EXCEPT !.scan_list = Append(st.scan_list, s)])

\* lines 575-605: a scan-start line in an open scan header stores the open
\* scan as NODATA without a data offset and opens the new scan
SecondScan(st, line) ==
    IF ~ScanArgsBound(st) THEN Raise(st, "UnboundLocalError")
    ELSE StartScan(ResetFlags([st EXCEPT !.scan_list = Append(st.scan_list, NewScan(st, None, "NODATA"))]),
                   line, FALSE)

\* lines 420-605: the if / elif chain of Parse on one stripped line
Classify(st, line) ==
    IF SPEC_newheader(line)
    THEN [st EXCEPT !.init_motor_names_fh = <<>>]
    ELSE IF SPEC_initmoponames(line) /\ ~st.scan_started
    THEN [st EXCEPT !.init_motor_names_fh =
              st.init_motor_names_fh \o
              SPEC_multi_blank2_split(Strip(RemoveAll(line, <<"#", "M", "O", "T">>)))]
    ELSE IF SPEC_scan(line) /\ ~st.scan_started
    THEN StartScan(st, line, TRUE)
    ELSE IF SPEC_cmd(line) /\ st.scan_started
    THEN [st EXCEPT !.scancmd = Strip(From(line, 5)), !.bound = st.bound \cup {"scancmd"}]
    ELSE IF SPEC_datetime(line) /\ st.scan_started
    THEN LET times == SPEC_time_format_findall(line, 1)
         IN  IF times = <<>> THEN Raise(st, "IndexError")
             ELSE [st EXCEPT !.time = times[1],
                             !.date = Strip(SPEC_multi_blank_sub(From(SPEC_time_format_sub(line, 1), 5))),
                             !.bound = st.bound \cup {"time", "date"}]
    ELSE IF SPEC_exptime(line) /\ st.scan_started
    THEN LET nums == SPEC_num_value_findall(line)
         IN  IF nums = <<>> THEN Raise(st, "IndexError")
             ELSE [st EXCEPT !.itime = NumberOf(nums[1]), !.bound = st.bound \cup {"itime"}]
    ELSE IF SPEC_initmoponames(line) /\ st.scan_started
    THEN LET sh == st.init_motor_names_sh \o
                   SPEC_multi_blank2_split(Strip(RemoveAll(line, <<"#", "M", "O", "T">>)))
         IN  [st EXCEPT !.init_motor_names_sh = sh, !.init_motor_names = sh]
    ELSE IF SPEC_initmopopos(line) /\ st.scan_started
    THEN [st EXCEPT !.init_motor_values =
              AppendFloats(st.init_motor_values,
                           SPEC_multi_blank_split(Strip(RemoveAll(line, <<"#", "V", "A", "L">>))))]
    ELSE IF SPEC_colnames(line) /\ st.scan_started
    THEN [st EXCEPT !.col_names = SPEC_multi_blank_split(Strip(From(line, 5))),
                    !.bound = st.bound \cup {"col_names"}]
    ELSE IF SPEC_MCAFormat(line) /\ st.scan_started
    THEN LET nums == SPEC_num_value_findall(line)
         IN  IF nums = <<>> THEN Raise(st, "IndexError")
             ELSE [st EXCEPT !.mca_col_number = NumberOf(nums[1]), !.scan_has_mca = TRUE,
                             !.bound = st.bound \cup {"mca_col_number"}]
    ELSE IF SPEC_MCAChannels(line) /\ st.scan_started
    THEN LET nums == SPEC_num_value_findall(line)
         IN  IF Len(nums) < 3 THEN Raise(st, "IndexError")
             ELSE [st EXCEPT !.mca_channels = NumberOf(nums[1]),
                             !.mca_start = NumberOf(nums[2]),
                             !.mca_stop = NumberOf(nums[3]),
                             !.bound = st.bound \cup {"mca_channels", "mca_start", "mca_stop"}]
    ELSE IF SPEC_scanbroken(line) /\ st.scan_started
    THEN AbortScan(st)
    ELSE IF SPEC_dataline(line) /\ st.scan_started
    THEN DataLine(st)
    ELSE IF SPEC_scan(line) /\ st.scan_started
    THEN SecondScan(st, line)
    ELSE st

\* lines 411-610: one turn of the loop on the raw line `raw`; the cursor
\* advances by the raw length unless the turn raised
ParseLine(st, raw) ==
    The({IF t.exc # "" THEN t ELSE [t EXCEPT !.last_offset = t.last_offset + Len(raw)] :
         t \in {The({Classify(st, line) : line \in {Strip(raw)}})}})

RECURSIVE ParseLines(_, _)
ParseLines(st, lines) ==
    IF lines = <<>> \/ st.exc # "" THEN st
    ELSE The({ParseLines(x[1], x[2]) : x \in {<<ParseLine(st, Head(lines)), Tail(lines)>>}})

\* lines 612-614: the last offset becomes the data offset of the last scan of
\* scan_list
ParseEnd(st) ==
    IF st.exc # "" THEN st
    ELSE IF st.scan_list = <<>> THEN Raise(st, "IndexError")
    ELSE [st EXCEPT !.last_offset = st.scan_list[Len(st.scan_list)].doffset]

\* PalSpecFile.Parse on the file whose bytes are b: the parser state at the
\* return (or at the raise)
Parse(self, b) ==
    IF self.last_offset = None
    THEN Raise(ParseStart(self), "TypeError")
    ELSE The({ParseEnd(st) : st \in {ParseLines(ParseStart(self), LinesFrom(b, self.last_offset))}})

(***************************************************************************)
(* PalSpecFile: __init__, parse_folders, Update                            *)
(*                                                                         *)
(* A PalSpecFile is a record of its attributes. A disk is a record         *)
(* [present, content]: the scan numbers whose file exists and the lines of *)
(* each file. A call returns [self, exc, parsed]: the object after the     *)
(* call, the exception that ended it ("" when it returned) and the log of  *)
(* the Parse calls it made (file, offsets at entry and exit, exception).   *)
(***************************************************************************)

\* lines 279-304: the attributes before the first parse_folders
NewPalSpecFile(scan_in_list, start_scan) ==
    [scan_list |-> <<>>, last_offset |-> 0,
     scan_in_list |-> scan_in_list,
     curr_scan_nb |-> IF Len(scan_in_list) > 0 THEN scan_in_list[1] ELSE start_scan,
     init_motor_names_fh |-> <<>>, init_motor_names_sh |-> <<>>,
     init_motor_names |-> <<>>, full_filename |-> 0]

\* os.path.exists(data_file) for the file of scan number nb
Exists(disk, nb) == nb \in disk.present

\* lines 341-348 and 372-379: Parse the file of scan number nb, then reset
\* the offset (the reset is not reached when Parse raises)
AfterParse(r, nb, st) ==
    [self   |-> [r.self EXCEPT !.full_filename = nb,
                               !.scan_list = st.scan_list,
                               !.last_offset = IF st.exc = "" THEN 0 ELSE st.last_offset,
                               !.init_motor_names_fh = st.init_motor_names_fh,
                               !.init_motor_names_sh = st.init_motor_names_sh,
                               !.init_motor_names = st.init_motor_names],
     exc    |-> st.exc,
     parsed |-> Append(r.parsed, [nb |-> nb, start |-> r.self.last_offset,
                                  end |-> st.last_offset, exc |-> st.exc,
                                  nscans |-> Len(st.scan_list) - Len(r.self.scan_list)])]

ParseFile(r, disk, nb) ==
    The({AfterParse(r, nb, st) :
         st \in {Parse([r.self EXCEPT !.full_filename = nb], Bytes(disk.content[nb]))}})

\* lines 328-360: the loop over scan_in_list, at the numbers `rest`
RECURSIVE ExplicitLoop(_, _, _)
\* a variant that takes every number of the list, also one below the cursor
ExplicitLoopAnyOrder(r, disk, rest) ==
    IF rest = <<>> \/ r.exc # "" THEN r
    ELSE LET scan_nb == Head(rest)
         IN  IF Exists(disk, scan_nb)
             THEN The({ExplicitLoop(r2, disk, Tail(rest)) :
                       r2 \in {ParseFile([r EXCEPT !.self.curr_scan_nb = scan_nb], disk, scan_nb)}})
             ELSE [r EXCEPT !.self.curr_scan_nb = scan_nb]

ExplicitLoop(r, disk, rest) ==
    IF rest = <<>> \/ r.exc # "" THEN r
    ELSE LET scan_nb == Head(rest)
         IN  IF scan_nb >= r.self.curr_scan_nb
             THEN IF Exists(disk, scan_nb)
                  THEN The({ExplicitLoop(r2, disk, Tail(rest)) :
                            r2 \in {ParseFile([r EXCEPT !.self.curr_scan_nb = scan_nb], disk, scan_nb)}})
                  ELSE [r EXCEPT !.self.curr_scan_nb = scan_nb]
             ELSE ExplicitLoop(r, disk, Tail(rest))

\* lines 362-391: the loop over increasing scan numbers
RECURSIVE SequentialLoop(_, _)
SequentialLoop(r, disk) ==
    IF Exists(disk, r.self.curr_scan_nb)
    THEN The({IF r1.exc # "" THEN r1
              ELSE SequentialLoop([r1 EXCEPT !.self.curr_scan_nb = r1.self.curr_scan_nb + 1], disk) :
              r1 \in {ParseFile(r, disk, r.self.curr_scan_nb)}})
    ELSE r

\* PalSpecFile.parse_folders
parse_folders(self, disk) ==
    LET r == [self |-> self, exc |-> "", parsed |-> <<>>]
    IN  IF Len(self.scan_in_list) > 0
        THEN ExplicitLoop(r, disk, self.scan_in_list)
        ELSE SequentialLoop(r, disk)

\* PalSpecFile.__init__
Construct(scan_in_list, start_scan, disk) ==
    parse_folders(NewPalSpecFile(scan_in_list, start_scan), disk)

\* lines 317-321: the last scan of scan_list is marked as changed
MarkLast(scan_list) ==
    IF Len(scan_list) > 0
    THEN [scan_list EXCEPT ![Len(scan_list)].ischanged = TRUE]
    ELSE scan_list

\* PalSpecFile.Update
UpdateCall(self, disk) ==
    parse_folders([self EXCEPT !.scan_list = MarkLast(self.scan_list)], disk)

\* spec_file.Parse() called by the client: the file is the one of
\* full_filename (none before the first file was found: open raises), and
\* the offset is not reset afterwards
ParseCall(self, disk) ==
    IF self.full_filename = 0
    THEN [self |-> self, exc |-> "FileNotFoundError", parsed |-> <<>>]
    ELSE The({[self   |-> [self EXCEPT !.scan_list = st.scan_list,
                                       !.last_offset = st.last_offset,
                                       !.init_motor_names_fh = st.init_motor_names_fh,
                                       !.init_motor_names_sh = st.init_motor_names_sh,
                                       !.init_motor_names = st.init_motor_names],
               exc    |-> st.exc,
               parsed |-> <<[nb |-> self.full_filename, start |-> self.last_offset,
                             end |-> st.last_offset, exc |-> st.exc,
                             nscans |-> Len(st.scan_list) - Len(self.scan_list)]>>] :
              st \in {Parse(self, Bytes(disk.content[self.full_filename]))}})

\* PalSpec.__init__ (lines 182-194): the attributes of a PalSpec that
\* update_spec reads; stop_scan keeps its default, and the base class
\* leaves spec_file without a PalSpecFile and overwrite_h5 off. h5_exists
\* says whether the file h5_path/h5_file_name exists, saved whether the
\* last update_spec has called Save2HDF5
NewPalSpec(scan_list, start_scan) ==
    [exists |-> TRUE, scan_list |-> scan_list, start_scan |-> start_scan, made |-> 0,
     overwrite_h5 |-> FALSE, h5_exists |-> FALSE, saved |-> FALSE]

\* lines 207-211 after the constructor returned the PalSpecFile of c: it is
\* stored in spec_file and updated; u is the Update that had raised
UpdateSpecNew(u, c, disk) ==
    The({[self |-> v.self, has |-> TRUE, new |-> TRUE, exc |-> v.exc,
          parsed |-> u.parsed \o c.parsed \o v.parsed] :
         v \in {UpdateCall(c.self, disk)}})

\* lines 205-211, the except branch: when the constructor raises, spec_file
\* keeps what it held
UpdateSpecBuild(pal, has, u, disk) ==
    The({IF c.exc # ""
         THEN [self |-> u.self, has |-> has, new |-> FALSE, exc |-> c.exc,
               parsed |-> u.parsed \o c.parsed]
         ELSE UpdateSpecNew(u, c, disk) :
         c \in {Construct(pal.scan_list, pal.start_scan, disk)}})

\* lines 202-211 of PalSpec.update_spec, the try statement, for the PalSpec
\* pal, whose spec_file is the PalSpecFile self when has holds: Update of
\* spec_file; when that raises (or there is no PalSpecFile yet), a new
\* PalSpecFile is built, stored in spec_file and updated. The result holds
\* the PalSpecFile in spec_file afterwards, whether there is one, whether
\* it is a new one, the exception that left the statement and the Parse
\* calls made.
UpdateSpecFile(pal, has, self, disk) ==
    The({IF u.exc = ""
         THEN [self |-> u.self, has |-> TRUE, new |-> FALSE, exc |-> "", parsed |-> u.parsed]
         ELSE UpdateSpecBuild(pal, has, u, disk) :
         u \in {IF has THEN UpdateCall(self, disk)
                ELSE [self |-> self, exc |-> "AttributeError", parsed |-> <<>>]}})

\* line 213: the hdf5 file is written when it does not exist or
\* overwrite_h5 is set
SavesHDF5(pal) == ~pal.h5_exists \/ pal.overwrite_h5

\* the scans of scan_list from the i-th on are read with ReadData, in order,
\* up to the first that raises
RECURSIVE ReadScans(_, _, _)
ReadScans(self, disk, i) ==
    IF i > Len(self.scan_list) THEN [self |-> self, exc |-> ""]
    ELSE The({IF r.exc # ""
              THEN [self |-> [self EXCEPT !.scan_list[i] = r.scan], exc |-> r.exc]
              ELSE ReadScans([self EXCEPT !.scan_list[i] = r.scan], disk, i + 1) :
              r \in {ReadData(self.scan_list[i], Bytes(disk.content[self.scan_list[i].fname]))}})

\* line 216: spec_file.Save2HDF5(hdf5 file). Save2HDF5 is a method of
\* SPECFile of xrayutilities, which is no part of this repository; of its
\* outcomes the model keeps what it does to the attributes it tracks. The
\* call either leaves the scans alone, or reads their data with
\* PalSpecScan.ReadData, whose exception leaves the call
Save2HDF5(self, disk, reads) ==
    IF reads THEN ReadScans(self, disk, 1) ELSE [self |-> self, exc |-> ""]

\* lines 212-216 after the try statement returned r
UpdateSpecSave(r, disk, reads) ==
    The({[self |-> sv.self, has |-> r.has, new |-> r.new, exc |-> sv.exc,
          parsed |-> r.parsed, saved |-> TRUE] :
         sv \in {Save2HDF5(r.self, disk, reads)}})

\* PalSpec.update_spec (lines 196-216): the try statement and, when it
\* returned and line 213 holds, Save2HDF5 with the outcome `reads`. saved
\* says whether Save2HDF5 was called
UpdateSpecCall(pal, has, self, disk, reads) ==
    The({IF r.exc = "" /\ SavesHDF5(pal)
         THEN UpdateSpecSave(r, disk, reads)
         ELSE [self |-> r.self, has |-> r.has, new |-> r.new, exc |-> r.exc,
               parsed |-> r.parsed, saved |-> FALSE] :
         r \in {UpdateSpecFile(pal, has, self, disk)}})

(***************************************************************************)
(* The state machine: a producer that writes the scan files, and a client  *)
(* that builds one PalSpecFile, updates it and reads the data of its scans *)
(***************************************************************************)

\* the scan numbers a file can be written for
MaxFile == 2

\* the calls of the client that parse files (constructor, Update,
\* parse_folders, Parse, update_spec) in one behaviour
MaxCalls == 3

\* the lines one file holds after a complete header in SpecParse
MaxTail == 3

FileNbs == 1..MaxFile

VARIABLES
    present,              \* the scan numbers whose file exists
    content,              \* the lines of each file
    constructed,          \* a PalSpecFile was built
    scan_list,            \* PalSpecFile.scan_list
    last_offset,          \* PalSpecFile.last_offset
    curr_scan_nb,         \* PalSpecFile.curr_scan_nb
    scan_in_list,         \* PalSpecFile.scan_in_list
    init_motor_names_fh,  \* PalSpecFile.init_motor_names_fh
    init_motor_names_sh,  \* PalSpecFile.init_motor_names_sh
    init_motor_names,     \* PalSpecFile.init_motor_names
    full_filename,        \* PalSpecFile.full_filename, by scan number
    op,                   \* the last call: its name and, for ReadData, the scan
    exc,                  \* the exception the last call raised ("" if none)
    parsed,               \* the Parse calls of the last constructor / Update
    seen,                 \* the disk at the last constructor / Update call
    calls,                \* the number of parsing calls of the client so far
    pal                   \* the PalSpec of the client: scan_list, start_scan,
                          \* overwrite_h5, the number of PalSpecFile objects it
                          \* has built, whether its hdf5 file exists, and whether
                          \* its last update_spec called Save2HDF5

diskvars == <<present, content>>

selfvars == <<scan_list, last_offset, curr_scan_nb, scan_in_list, init_motor_names_fh,
              init_motor_names_sh, init_motor_names, full_filename>>

vars == <<present, content, constructed, scan_list, last_offset, curr_scan_nb,
          scan_in_list, init_motor_names_fh, init_motor_names_sh, init_motor_names,
          full_filename, op, exc, parsed, seen, calls, pal>>

Disk == [present |-> present, content |-> content]

Self == [scan_list |-> scan_list, last_offset |-> last_offset,
         scan_in_list |-> scan_in_list, curr_scan_nb |-> curr_scan_nb,
         init_motor_names_fh |-> init_motor_names_fh,
         init_motor_names_sh |-> init_motor_names_sh,
         init_motor_names |-> init_motor_names, full_filename |-> full_filename]

SetSelf(o) ==
    /\ scan_list' = o.scan_list
    /\ last_offset' = o.last_offset
    /\ scan_in_list' = o.scan_in_list
    /\ curr_scan_nb' = o.curr_scan_nb
    /\ init_motor_names_fh' = o.init_motor_names_fh
    /\ init_motor_names_sh' = o.init_motor_names_sh
    /\ init_motor_names' = o.init_motor_names
    /\ full_filename' = o.full_filename

\* the attributes while no object exists
NoObject == NewPalSpecFile(<<>>, 0)

\* the client has no PalSpec
NoPalSpec ==
    [exists |-> FALSE, scan_list |-> <<>>, start_scan |-> 0, made |-> 0,
     overwrite_h5 |-> FALSE, h5_exists |-> FALSE, saved |-> FALSE]

Init ==
    /\ present = {}
    /\ content = [n \in FileNbs |-> <<>>]
    /\ constructed = FALSE
    /\ scan_list = NoObject.scan_list
    /\ last_offset = NoObject.last_offset
    /\ scan_in_list = NoObject.scan_in_list
    /\ curr_scan_nb = NoObject.curr_scan_nb
    /\ init_motor_names_fh = NoObject.init_motor_names_fh
    /\ init_motor_names_sh = NoObject.init_motor_names_sh
    /\ init_motor_names = NoObject.init_motor_names
    /\ full_filename = NoObject.full_filename
    /\ op = [name |-> "none", scan |-> 0]
    /\ exc = ""
    /\ parsed = <<>>
    /\ seen = [present |-> {}, content |-> [n \in FileNbs |-> <<>>]]
    /\ calls = 0
    /\ pal = NoPalSpec

\* the producer appends the lines w to the file of scan number n, creating
\* the file with its first lines
Write(n, w) ==
    /\ present' = present \cup {n}
    /\ content' = [content EXCEPT ![n] = content[n] \o w]
    /\ UNCHANGED <<constructed, scan_list, last_offset, curr_scan_nb, scan_in_list,
                   init_motor_names_fh, init_motor_names_sh, init_motor_names,
                   full_filename, op, exc, parsed, seen, calls, pal>>

\* the arguments the client gives the constructor: an explicit list of scan
\* numbers (in any order), or none and the start number 1
ScanLists == {<<>>, <<1>>, <<1, 2>>, <<2, 1>>}

StartScan1 == 1

\* PalSpecFile(filename, path, file_format, scan_in_list, start_scan) by a
\* client that has no PalSpec: when __init__ raises, the caller gets no
\* object
DoConstruct(sl) ==
    /\ ~constructed
    /\ ~pal.exists
    /\ calls < MaxCalls
    /\ \E r \in {Construct(sl, StartScan1, Disk)} :
              /\ constructed' = (r.exc = "")
              /\ SetSelf(IF r.exc = "" THEN r.self ELSE NoObject)
              /\ op' = [name |-> "Construct", scan |-> 0]
              /\ exc' = r.exc
              /\ parsed' = r.parsed
              /\ seen' = Disk
    /\ calls' = calls + 1
    /\ UNCHANGED <<present, content, pal>>

\* spec_file.Update()
DoUpdate ==
    /\ constructed
    /\ calls < MaxCalls
    /\ \E r \in {UpdateCall(Self, Disk)} :
           /\ SetSelf(r.self)
           /\ op' = [name |-> "Update", scan |-> 0]
           /\ exc' = r.exc
           /\ parsed' = r.parsed
           /\ seen' = Disk
    /\ calls' = calls + 1
    /\ UNCHANGED <<present, content, constructed, pal>>

\* spec_file.parse_folders() called by the client
DoParseFolders ==
    /\ constructed
    /\ calls < MaxCalls
    /\ \E r \in {parse_folders(Self, Disk)} :
           /\ SetSelf(r.self)
           /\ op' = [name |-> "parse_folders", scan |-> 0]
           /\ exc' = r.exc
           /\ parsed' = r.parsed
           /\ seen' = Disk
    /\ calls' = calls + 1
    /\ UNCHANGED <<present, content, constructed, pal>>

\* spec_file.Parse() called by the client
DoParse ==
    /\ constructed
    /\ calls < MaxCalls
    /\ \E r \in {ParseCall(Self, Disk)} :
           /\ SetSelf(r.self)
           /\ op' = [name |-> "Parse", scan |-> 0]
           /\ exc' = r.exc
           /\ parsed' = r.parsed
           /\ seen' = Disk
    /\ calls' = calls + 1
    /\ UNCHANGED <<present, content, constructed, pal>>

\* the start numbers the client gives: the default of PalSpec
StartScan0 == 0

\* PalSpec(name, file_path, scan_list=sl, start_scan=s), by a client that
\* has built no PalSpecFile itself. The hdf5 file of an earlier session may
\* exist, and the client may set overwrite_h5
DoPalSpec(sl, s) ==
    /\ ~pal.exists
    /\ ~constructed
    /\ calls = 0
    /\ \E h, ow \in BOOLEAN :
           pal' = [NewPalSpec(sl, s) EXCEPT !.h5_exists = h, !.overwrite_h5 = ow]
    /\ op' = [name |-> "PalSpec", scan |-> 0]
    /\ exc' = ""
    /\ UNCHANGED <<present, content, constructed, selfvars, parsed, seen, calls>>

\* spec.update_spec(). A Save2HDF5 that was called leaves the hdf5 file
\* written, or fails before it has created the file
DoUpdateSpec ==
    /\ pal.exists
    /\ calls < MaxCalls
    /\ \E reads, written \in BOOLEAN :
         \E r \in {UpdateSpecCall(pal, constructed, Self, Disk, reads)} :
           /\ r.saved \/ (~reads /\ ~written)
           /\ SetSelf(r.self)
           /\ constructed' = r.has
           /\ pal' = [pal EXCEPT !.made = IF r.new THEN pal.made + 1 ELSE pal.made,
                                 !.saved = r.saved,
                                 !.h5_exists = pal.h5_exists \/ (r.saved /\ written)]
           /\ op' = [name |-> "update_spec", scan |-> 0]
           /\ exc' = r.exc
           /\ parsed' = r.parsed
           /\ seen' = Disk
    /\ calls' = calls + 1
    /\ UNCHANGED <<present, content>>

\* spec_file.scan_list[i - 1].ReadData()
DoReadData(i) ==
    /\ constructed
    /\ i \in 1..Len(scan_list)
    /\ \E r \in {ReadData(scan_list[i], Bytes(content[scan_list[i].fname]))} :
           /\ scan_list' = [scan_list EXCEPT ![i] = r.scan]
           /\ exc' = r.exc
           /\ op' = [name |-> "ReadData", scan |-> i]
    /\ UNCHANGED <<present, content, constructed, last_offset, curr_scan_nb, scan_in_list,
                   init_motor_names_fh, init_motor_names_sh, init_motor_names,
                   full_filename, parsed, seen, calls, pal>>

\* the writes of one scan file, in order: the scan-start line, the rest of
\* the header, and two data rows
Script == <<<<"RUN1">>, <<"CMD", "TIM", "COL">>, <<"ROW">>, <<"ROW">>>>

\* the lines of the first k writes of the script
RECURSIVE ScriptPrefix(_)
ScriptPrefix(k) == IF k = 0 THEN <<>> ELSE ScriptPrefix(k - 1) \o Script[k]

\* the producer writes the next part of the file of scan number n
WriteNext(n) ==
    \E k \in 1..Len(Script) :
        /\ content[n] = ScriptPrefix(k - 1)
        /\ Write(n, Script[k])

Next ==
    \/ \E n \in FileNbs : WriteNext(n)
    \/ \E sl \in ScanLists : DoConstruct(sl)
    \/ DoUpdate
    \/ \E i \in 1..(MaxFile * MaxCalls) : DoReadData(i)

\* several scan files written side by side, part by part; one client
Spec == Init /\ [][Next]_vars

\* a complete scan header
Header == <<"RUN1", "CMD", "TIM", "COL">>

\* the lines that can follow in SpecParse
TailLines == {"RUN2", "ABORT", "RESUME", "ATT", "FOO", "ROW", "ROW1"}

\* the producer writes file 1: first a complete header or any one line, then
\* any lines
WriteAny ==
    \/ /\ content[1] = <<>>
       /\ Write(1, Header)
    \/ /\ Len(content[1]) < MaxTail + (IF StartsWith(content[1], Header) THEN Len(Header) ELSE 0)
       /\ \E l \in TailLines : Write(1, <<l>>)

NextParse ==
    \/ WriteAny
    \/ \E sl \in {<<>>, <<1>>} : DoConstruct(sl)
    \/ DoUpdate
    \/ \E i \in 1..(MaxTail * MaxCalls) : DoReadData(i)

\* one scan file of any lines; one client
SpecParse == Init /\ [][NextParse]_vars

\* the header of a scan with spectral parameters: two values a line, three
\* channels, so two lines for one spectrum
McaHeader == Header \o <<"MCA", "CHANN">>

\* the lines the producer writes after it
McaLines == {"ROW", "SPEC1", "SPEC2", "ABORT"}

\* the producer writes file 1: first the header, then up to MaxTail + 2 lines
WriteMca ==
    \/ /\ content[1] = <<>>
       /\ Write(1, McaHeader)
    \/ /\ content[1] # <<>>
       /\ Len(content[1]) < Len(McaHeader) + MaxTail + 2
       /\ \E l \in McaLines : Write(1, <<l>>)

NextMca ==
    \/ WriteMca
    \/ DoConstruct(<<>>)
    \/ DoReadData(1)

\* one scan file with spectral data; one client that builds a PalSpecFile
\* and reads the scan
SpecMca == Init /\ [][NextMca]_vars

\* the lines of file 1 in SpecHeader that every behaviour writes, in order:
\* a scan with a complete header and a data row, and a second scan whose
\* header is its scan-start line
Skeleton == <<<<"RUN1">>, <<"CMD", "TIM", "COL">>, <<"ROW">>, <<"RUN2">>, <<"ROW">>>>

RECURSIVE SkeletonPrefix(_)
SkeletonPrefix(k) == IF k = 0 THEN <<>> ELSE SkeletonPrefix(k - 1) \o Skeleton[k]

\* the lines the producer can put anywhere between them: a new file header,
\* motor names, motor positions (complete, empty, with a token that is no
\* number), and a command line that holds an abort notice
HeaderExtras == {"E", "MOT", "VAL", "VALE", "VALX", "CMDAB"}

\* the most lines of HeaderExtras in file 1
MaxExtra == 2

IsSkeletonLine(l) == l \notin HeaderExtras

\* the producer writes the next part of the skeleton of file 1, before the
\* client looks at the files
WriteSkeleton ==
    /\ calls = 0
    /\ \E k \in 1..Len(Skeleton) :
           /\ SelectSeq(content[1], IsSkeletonLine) = SkeletonPrefix(k - 1)
           /\ Write(1, Skeleton[k])

\* the producer writes one of the other lines to file 1
WriteExtra(l) ==
    /\ calls = 0
    /\ Len(content[1]) - Len(SelectSeq(content[1], IsSkeletonLine)) < MaxExtra
    /\ Write(1, <<l>>)

\* the producer writes file 2, a complete scan, at once
WriteSecond ==
    /\ calls = 0
    /\ content[2] = <<>>
    /\ Write(2, Header \o <<"ROW">>)

NextHeader ==
    \/ WriteSkeleton
    \/ \E l \in HeaderExtras : WriteExtra(l)
    \/ WriteSecond
    \/ \E sl \in {<<>>, <<1, 2>>} : DoConstruct(sl)

\* two scan files, the first with any header lines around its scans; one
\* client that builds a PalSpecFile once the files are written
SpecHeader == Init /\ [][NextHeader]_vars

\* the lines the producer writes after the scan-start line in SpecCommand:
\* the lines of a scan header, each of which may be missing, a command line
\* that holds an abort notice, an abort notice, and a data row
CommandLines == {"CMD", "TIM", "COL", "CMDAB", "ABORT", "ROW"}

\* the producer writes file 1 before the client looks at it: a scan-start
\* line, then up to MaxTail + 2 lines in any order
WriteCommand ==
    /\ calls = 0
    /\ \/ /\ content[1] = <<>>
          /\ Write(1, <<"RUN1">>)
       \/ /\ content[1] # <<>>
          /\ Len(content[1]) < MaxTail + 3
          /\ \E l \in CommandLines : Write(1, <<l>>)

NextCommand ==
    \/ WriteCommand
    \/ DoConstruct(<<>>)

\* one scan file whose scan header has any of its lines, or none; one
\* client that builds a PalSpecFile
SpecCommand == Init /\ [][NextCommand]_vars

\* the arguments the client gives PalSpec: its defaults, the start number
\* 1, or an explicit list
PalSpecArgs == {<<<<>>, StartScan0>>, <<<<>>, StartScan1>>, <<<<2, 1>>, StartScan0>>}

\* the writes of file 1 in SpecCalls, in order: those of Script (a scan with
\* two data rows), a scan with a complete header ended by an abort notice, a
\* scan ended by the next scan-start line, and a scan with its scan-start
\* line and a data row
CallsScript ==
    Script \o <<<<"RUN2", "CMD", "TIM", "COL">>, <<"ABORT">>, <<"RUN1">>, <<"RUN2">>, <<"ROW">>>>

RECURSIVE CallsPrefix(_)
CallsPrefix(k) == IF k = 0 THEN <<>> ELSE CallsPrefix(k - 1) \o CallsScript[k]

\* the producer of SpecCalls writes the next part of file 1, or file 2, a
\* complete scan, at once
WriteCalls ==
    \/ \E k \in 1..Len(CallsScript) :
           /\ content[1] = CallsPrefix(k - 1)
           /\ Write(1, CallsScript[k])
    \/ /\ content[2] = <<>>
       /\ Write(2, Header \o <<"ROW">>)

NextCalls ==
    \/ WriteCalls
    \/ \E sl \in {<<>>, <<2, 1>>} : DoConstruct(sl)
    \/ DoUpdate
    \/ DoParseFolders
    \/ DoParse
    \/ \E a \in PalSpecArgs : DoPalSpec(a[1], a[2])
    \/ DoUpdateSpec

\* two scan files; one client that uses every public call that parses:
\* the constructor, Update, parse_folders and Parse of a PalSpecFile it
\* built, or update_spec of a PalSpec
SpecCalls == Init /\ [][NextCalls]_vars

(***************************************************************************)
(* Properties                                                              *)
(***************************************************************************)

\* a step of Update
UpdateStep == constructed /\ calls' = calls + 1 /\ op'.name = "Update"

\* a step of a call that parses, on the PalSpecFile that was there before
\* and is there afterwards: Update, parse_folders, Parse, or an update_spec
\* that builds no new PalSpecFile
SameObjectStep == constructed /\ calls' = calls + 1 /\ pal'.made = pal.made

\* a step that leaves a PalSpecFile it has built: the constructor, or an
\* update_spec that stores a new one
NewObjectStep ==
    /\ calls' = calls + 1
    /\ constructed'
    /\ ~constructed \/ pal'.made # pal.made

\* the scan_list of a PalSpecFile built with the same arguments on the disk
\* as it is now
FreshScanList == Construct(scan_in_list, StartScan1, Disk).self.scan_list

\* the file of scan number n was cut in the middle of its data rows at the
\* last pass, which stored its scan, and has its last row now; no other
\* file changed
TruncatedThenCompleted(n) ==
    /\ n \in seen.present
    /\ seen.content[n] = ScriptPrefix(3)
    /\ content[n] = ScriptPrefix(4)
    /\ \A m \in FileNbs \ {n} : content[m] = seen.content[m] /\ (m \in present <=> m \in seen.present)
    /\ \E i \in 1..Len(scan_list) : scan_list[i].fname = n

\* C1: resumability. When the constructor parsed a file cut in the middle of
\* its data rows and Update runs after the producer appended the missing
\* row, scan_list equals the scan_list of one parse of the final files: the
\* scan of the cut file is there once. Explicit list and sequential mode.
C1_Resumability ==
    [][(UpdateStep /\ calls = 1 /\ \E n \in FileNbs : TruncatedThenCompleted(n))
         => scan_list' = FreshScanList]_vars

\* every file on the disk is complete and the disk is as the last pass saw it
CompleteAndStatic ==
    /\ seen = Disk
    /\ present # {}
    /\ \A n \in present : content[n] = ScriptPrefix(Len(Script))

\* C2: idempotence. An Update on complete files that did not change since
\* the last pass leaves scan_list as it was: no scan is appended a second
\* time and none is lost.
C2_Idempotence ==
    [][(UpdateStep /\ CompleteAndStatic) => scan_list' = scan_list]_vars

\* C3: offset monotonicity. Every Parse call that returned left last_offset
\* at an offset greater than or equal to the one it started from.
C3_OffsetMonotone ==
    \A i \in 1..Len(parsed) :
        parsed[i].exc = "" => parsed[i].end # None /\ parsed[i].end >= parsed[i].start

\* the first scan number from s on whose file does not exist
RECURSIVE FirstMissing(_)
FirstMissing(s) == IF s \in present THEN FirstMissing(s + 1) ELSE s

\* C4: sequential discovery stop. In sequential mode a discovery pass that
\* starts with the cursor at s, the files s .. s+n-1 existing and the file
\* s+n missing, parses exactly the files s .. s+n-1, once each and in
\* increasing order, and ends with the cursor at s+n.
C4_SequentialStop ==
    [][(UpdateStep /\ scan_in_list = <<>>)
         => LET s == curr_scan_nb
                m == FirstMissing(curr_scan_nb)
            IN  /\ curr_scan_nb' = m
                /\ Len(parsed') = m - s
                /\ \A k \in 1..(m - s) : parsed'[k].nb = s + k - 1]_vars

\* the only pass so far is the constructor's, which returned, on a file 1
\* whose lines are ls
FirstPassOn(ls) == calls = 1 /\ constructed /\ seen.present = {1} /\ seen.content[1] = ls

\* the only call that parsed so far is the constructor, which returned or
\* raised, on a file 1 whose lines are ls
FirstCallOn(ls) == calls = 1 /\ seen.present = {1} /\ seen.content[1] = ls

\* the lines up to the abort notice in the files of C5, C6 and C7: a
\* scan-start line alone, or a complete scan header
ScanHeads == {<<"RUN2">>, Header}

\* C5 (double abort): a file whose lines are a scan-start line (alone or
\* with the rest of its header) and two abort notices gives exactly one
\* scan, with status NODATA and without a data offset.
C5_DoubleAbort ==
    \A h \in ScanHeads :
        FirstCallOn(h \o <<"ABORT", "ABORT">>)
          => /\ constructed
             /\ Len(scan_list) = 1
             /\ scan_list[1].scan_status = "NODATA"
             /\ scan_list[1].doffset = None

\* ls is a scan-start line (alone or with the rest of its header), an abort
\* notice, a resume notice and then data rows up to its end
IsAbortResume(ls) ==
    \E h \in ScanHeads :
        /\ StartsWith(ls, h \o <<"ABORT", "RESUME">>)
        /\ Len(ls) > Len(h) + 2
        /\ \A k \in (Len(h) + 3)..Len(ls) : ls[k] \in {"ROW", "ROW1"}

\* the first data row of ls
FirstRowOf(ls) == CHOOSE k \in 1..Len(ls) : ls[k] \in {"ROW", "ROW1"} /\ \A j \in 1..(k - 1) : ls[j] \notin {"ROW", "ROW1"}

\* C6 (abort then resume): a scan-start line, an abort notice, a resume
\* notice and data rows up to the end of the file give exactly one scan
\* with status OK and the offset of the first data row as data offset, and
\* ReadData gives it a table of those rows.
C6_AbortResume ==
    (calls = 1 /\ seen.present = {1} /\ IsAbortResume(seen.content[1]))
      => /\ constructed
         /\ Len(scan_list) = 1
         /\ scan_list[1].scan_status = "OK"
         /\ scan_list[1].doffset = OffsetOf(seen.content[1], FirstRowOf(seen.content[1]))
         /\ op.name = "ReadData" => (exc = "" /\ scan_list[1].data # NoTable)

\* ls is a scan-start line (alone or with the rest of its header), an abort
\* notice, any resume notices and comment lines, and then an unrecognized
\* line before any data row
IsAbortNoResume(ls) ==
    \E h \in ScanHeads :
        /\ StartsWith(ls, h \o <<"ABORT">>)
        /\ \E k \in (Len(h) + 2)..Len(ls) :
               /\ ls[k] = "FOO"
               /\ \A j \in (Len(h) + 2)..(k - 1) : ls[j] \in {"RESUME", "ATT"}
        /\ \A k \in (Len(h) + 2)..Len(ls) : ls[k] \in {"RESUME", "ATT", "FOO", "ROW", "ROW1"}

\* C7 (abort without resume): when an abort notice after a scan-start line
\* is followed, past any resume notices and comment lines, by an
\* unrecognized line before any data row, the scan is stored with status
\* ABORTED, without a data offset and without data.
C7_AbortWithoutResume ==
    (calls = 1 /\ seen.present = {1} /\ IsAbortNoResume(seen.content[1]))
      => /\ constructed
         /\ Len(scan_list) = 1
         /\ scan_list[1].scan_status = "ABORTED"
         /\ scan_list[1].doffset = None
         /\ scan_list[1].data = NoTable

\* the data rows of scan s in the file of bytes b hold, before any line that
\* is not a data row, a row with another number of fields than s has column
\* names
HasArityMismatch(s, b) ==
    /\ s.doffset # None
    /\ \E ls \in {LinesFrom(b, s.doffset)} :
         \E k \in 1..Len(ls) :
             /\ \A j \in 1..k : SPEC_dataline(Strip(ls[j]))
             /\ Len(SPEC_num_value_findall(Strip(ls[k]))) # Len(s.colnames)

\* ReadData was the last call, on scan i
JustRead(i) == constructed /\ i \in 1..Len(scan_list) /\ op = [name |-> "ReadData", scan |-> i]

\* C8: schema mismatch. After ReadData on a scan one of whose data rows (the
\* first or a later one) has another number of fields than the scan has
\* column names, the status is NODATA, the data is absent, and the call did
\* not raise.
C8_SchemaMismatch ==
    \A i \in 1..Len(scan_list) :
        (JustRead(i) /\ HasArityMismatch(scan_list[i], Bytes(content[scan_list[i].fname])))
          => /\ exc = ""
             /\ scan_list[i].scan_status = "NODATA"
             /\ scan_list[i].data = NoTable

\* C9: row-arity invariant. After ReadData on a scan, a status OK means that
\* every row of the table has as many scalar fields as the scan has column
\* names (and, with spectral parameters, one spectral field of
\* mca_channels values), and an arity mismatch in its rows means status NODATA.
C9_RowArity ==
    \A i \in 1..Len(scan_list) :
        JustRead(i)
          => /\ (scan_list[i].scan_status = "OK" /\ scan_list[i].data # NoTable)
                  => \A k \in 1..Len(scan_list[i].data) : FitsDtype(scan_list[i], scan_list[i].data[k])
             /\ HasArityMismatch(scan_list[i], Bytes(content[scan_list[i].fname]))
                  => scan_list[i].scan_status = "NODATA"

\* C10: every scan of scan_list that has a data offset has its header offset
\* at or before it, after any passes: those of the constructor, Update,
\* parse_folders and update_spec, and a Parse called by the client, which
\* starts at the data offset of the last scan.
C10_HeaderBeforeData ==
    \A i \in 1..Len(scan_list) :
        scan_list[i].doffset # None => scan_list[i].hoffset <= scan_list[i].doffset

C10_Witness ==
    /\ op.name = "Parse"
    /\ exc = ""
    /\ parsed[1].start > 0
    /\ parsed[1].nscans > 0
    /\ \E i, j \in 1..Len(scan_list) :
         /\ scan_list[i].doffset = None
         /\ scan_list[j].doffset # None
         /\ scan_list[j].hoffset > 0
         /\ scan_list[j].hoffset < scan_list[j].doffset

\* C11: scan_list is append-only but for its last entry. A Parse, a
\* parse_folders, an Update or an update_spec on the same PalSpecFile,
\* whether it returns or raises, leaves every entry that was in scan_list,
\* except the last one, unchanged in content and position; the last one is
\* marked as changed by Update (also inside update_spec) and left as it was
\* by Parse and parse_folders; new scans come after the existing ones.
\* (An update_spec that goes on to Save2HDF5 is left out: that call may read
\* the data of the scans, as ReadData does.)
C11_AppendOnly ==
    [][(SameObjectStep /\ ~pal'.saved)
         => /\ Len(scan_list') >= Len(scan_list)
            /\ \A i \in 1..(Len(scan_list) - 1) : scan_list'[i] = scan_list[i]
            /\ scan_list # <<>>
                 => scan_list'[Len(scan_list)] =
                      IF op'.name \in {"Update", "update_spec"}
                      THEN [scan_list[Len(scan_list)] EXCEPT !.ischanged = TRUE]
                      ELSE scan_list[Len(scan_list)]]_vars

\* a Parse called by the client has appended a scan to a scan_list that
\* held scans of two files
C11_Witness ==
    /\ op.name = "Parse"
    /\ exc = ""
    /\ parsed # <<>>
    /\ parsed[1].nscans > 0
    /\ Len(scan_list) >= 3
    /\ \E i, j \in 1..Len(scan_list) : scan_list[i].fname # scan_list[j].fname

\* the lines of a file that ends inside its scan header: a scan-start line
\* and no data row, abort notice or second scan-start line
TruncatedHeader == {ScriptPrefix(1), ScriptPrefix(2)}

\* C12: truncated header. A Parse of a file that ends while its scan header
\* is open returns without raising and appends no record, also when
\* scan_list is still empty.
C12_TruncatedHeader ==
    \A i \in 1..Len(parsed) :
        seen.content[parsed[i].nb] \in TruncatedHeader
          => parsed[i].exc = "" /\ parsed[i].nscans = 0

\* ls begins with a scan-start line, holds no further scan-start line and no
\* abort notice, and holds a data row: its first data row ends the header
IsOneScanFile(ls) ==
    /\ ls # <<>>
    /\ ls[1] \in {"RUN1", "RUN2"}
    /\ \A k \in 2..Len(ls) : ls[k] \notin {"RUN1", "RUN2", "ABORT", "CMDAB"}
    /\ \E k \in 2..Len(ls) : ls[k] \in {"ROW", "ROW1"}

\* the index of the first data row of ls
FirstRow(ls) == CHOOSE k \in 1..Len(ls) : ls[k] \in {"ROW", "ROW1"} /\ \A j \in 1..(k - 1) : ls[j] \notin {"ROW", "ROW1"}

\* C13: end of header. A Parse from the start of a file with one scan-start
\* line and data rows returns having appended exactly one scan (the later
\* rows append nothing); the scan has status OK, the offset of the first
\* data row as data offset, and MCA parameters only if its header has an
\* MCA format line.
C13_EndOfHeader ==
    /\ \A i \in 1..Len(parsed) :
         (parsed[i].start = 0 /\ IsOneScanFile(seen.content[parsed[i].nb]))
           => parsed[i].exc = "" /\ parsed[i].nscans = 1
    /\ (calls = 1 /\ constructed /\ seen.present = {1} /\ IsOneScanFile(seen.content[1]))
         => /\ Len(scan_list) = 1
            /\ scan_list[1].scan_status = "OK"
            /\ scan_list[1].doffset = OffsetOf(seen.content[1], FirstRow(seen.content[1]))
            /\ scan_list[1].has_mca <=> "MCA" \in {seen.content[1][k] : k \in 1..Len(seen.content[1])}

\* the scan headers a file of SpecParse can begin with: a complete one, or
\* a scan-start line alone
OpenHeaders == {Header, <<"RUN2">>}

\* ls is the header h left open, a second scan-start line, and data rows
IsTwoHeaders(ls, h) ==
    /\ StartsWith(ls, h \o <<"RUN2">>)
    /\ Len(ls) > Len(h) + 1
    /\ \A k \in (Len(h) + 2)..Len(ls) : ls[k] \in {"ROW", "ROW1"}

\* C14: consecutive scan headers. A scan-start line in an open scan header
\* appends the earlier scan with status NODATA and without a data offset and
\* opens the new scan, with the new number and the offset of the second
\* scan-start line as header offset; the data row that follows appends the
\* second scan with status OK.
C14_ConsecutiveHeaders ==
    \A h \in OpenHeaders :
        /\ \A i \in 1..Len(parsed) :
             (parsed[i].start = 0 /\ IsTwoHeaders(seen.content[parsed[i].nb], h))
               => parsed[i].exc = "" /\ parsed[i].nscans = 2
        /\ (calls = 1 /\ constructed /\ seen.present = {1} /\ IsTwoHeaders(seen.content[1], h))
             => /\ Len(scan_list) = 2
                /\ scan_list[1].scan_status = "NODATA"
                /\ scan_list[1].doffset = None
                /\ scan_list[2].nr = 2
                /\ scan_list[2].hoffset = OffsetOf(seen.content[1], Len(h) + 1)
                /\ scan_list[2].doffset = OffsetOf(seen.content[1], Len(h) + 2)
                /\ scan_list[2].scan_status = "OK"

\* C15: when the last Parse of the last pass returned, it left last_offset
\* at the data offset of the last scan of scan_list, or at that scan's
\* header offset when the scan has no data offset: an integer offset.
C15_LastOffsetDefined ==
    (parsed # <<>> /\ parsed[Len(parsed)].exc = "" /\ scan_list # <<>>)
      => LET s == scan_list[Len(scan_list)]
         IN  /\ parsed[Len(parsed)].end # None
             /\ parsed[Len(parsed)].end = IF s.doffset # None THEN s.doffset ELSE s.hoffset

\* the numbers an explicit-list pass is to parse, in order, and the cursor
\* it is to end with: the listed numbers below the cursor are skipped, the
\* others are taken in list order up to the first whose file is missing
RECURSIVE ExplicitPlan(_, _, _)
ExplicitPlan(rest, cur, nbs) ==
    IF rest = <<>> THEN [cursor |-> cur, nbs |-> nbs]
    ELSE IF Head(rest) < cur THEN ExplicitPlan(Tail(rest), cur, nbs)
    ELSE IF Head(rest) \in present THEN ExplicitPlan(Tail(rest), Head(rest), Append(nbs, Head(rest)))
    ELSE [cursor |-> Head(rest), nbs |-> nbs]

\* C16: explicit-list discovery. A pass probes the listed numbers in list
\* order, parses the file of every listed number that is not below the
\* cursor and exists, and stops at the first such number whose file is
\* missing, where the cursor stays for the next pass; numbers below the
\* cursor are not parsed.
C16_ExplicitDiscovery ==
    [][(UpdateStep /\ scan_in_list # <<>>)
         => LET plan == ExplicitPlan(scan_in_list, curr_scan_nb, <<>>)
            IN  /\ curr_scan_nb' = plan.cursor
                /\ Len(parsed') = Len(plan.nbs)
                /\ \A k \in 1..Len(plan.nbs) : parsed'[k].nb = plan.nbs[k]]_vars

\* the records of file n in a scan list, in order
RecordsOf(sl, n) == SelectSeq(sl, LAMBDA s : s.fname = n)

\* C17 (file independence): the records a pass builds for a file are those
\* a pass over that file alone builds.  After a constructor in sequential
\* mode has parsed files 1 and 2, the records of file 2 are the records of
\* a PalSpecFile built for file 2 alone on the same disk.
C17_FileIndependence ==
    (constructed /\ scan_in_list = <<>> /\ seen.present = {1, 2} /\ Len(parsed) = 2)
      => \A alone \in {Construct(<<2>>, StartScan1, seen)} :
           alone.exc = "" => RecordsOf(scan_list, 2) = alone.self.scan_list

\* the scans of file 1 in SpecHeader: scan k starts at its scan-start line
\* and is closed by the first data row after it
RunAt(ls, k) == CHOOSE j \in 1..Len(ls) : ls[j] = (IF k = 1 THEN "RUN1" ELSE "RUN2")

RowAt(ls, k) == CHOOSE j \in (RunAt(ls, k) + 1)..Len(ls) : ls[j] = "ROW" /\ \A q \in (RunAt(ls, k) + 1)..(j - 1) : ls[q] # "ROW"

HasScan(ls, k) == \E j \in 1..Len(ls) : ls[j] = (IF k = 1 THEN "RUN1" ELSE "RUN2") /\ \E q \in (j + 1)..Len(ls) : ls[q] = "ROW"

HeaderOf(ls, k) == SubSeq(ls, RunAt(ls, k) + 1, RowAt(ls, k) - 1)

\* a constructor in sequential mode has parsed file 1, the only file
BuiltFromFile1 == constructed /\ scan_in_list = <<>> /\ seen.present = {1}

\* the state of the parser in a first pass over a file of the lines ls, when
\* it comes to line k
StateBefore(ls, k) ==
    ParseLines(ParseStart([NewPalSpecFile(<<>>, StartScan1) EXCEPT !.full_filename = 1]),
               LinesFrom(Bytes(SubSeq(ls, 1, k - 1)), 0))

\* the text a command line gives the scan as its command
CommandOf(l) == Strip(From(LineText(l), 5))

\* C18 (line classification, as amended): every line is handled as exactly
\* one kind, and a command line that holds an abort notice ("CMDAB"),
\* inside an open scan header, is handled as a command declaration and not
\* as an abort notice: the turn raises nothing, stores no scan, leaves the
\* header open, makes the text after the command prefix the command of the
\* scan and changes nothing else but the cursor, whatever lines the header
\* had before.  No scan is stored with the offset of such a line as its data
\* offset, and a scan stored by a later line takes that command: the lines
\* "RUN1", "CMD", "TIM", "COL", "CMDAB", "ROW" give one scan, with status OK,
\* the command of the "CMDAB" line and the offset of the row.
C18_CommandBeforeAbort ==
    /\ \A k \in 1..Len(content[1]) :
         content[1][k] = "CMDAB"
           => \E st \in {StateBefore(content[1], k)} :
                (st.exc = "" /\ st.scan_started)
                  => ParseLine(st, Bytes(<<"CMDAB">>))
                       = [st EXCEPT !.scancmd = CommandOf("CMDAB"),
                                    !.bound = st.bound \cup {"scancmd"},
                                    !.last_offset = st.last_offset + Len(Bytes(<<"CMDAB">>))]
    /\ (calls = 1 /\ constructed)
         => \A k \in 1..Len(content[1]) :
              content[1][k] = "CMDAB"
                => \A i \in 1..Len(scan_list) :
                     scan_list[i].doffset # OffsetOf(content[1], k)
    /\ FirstPassOn(Header \o <<"CMDAB", "ROW">>)
         => /\ Len(scan_list) = 1
            /\ scan_list[1].scan_status = "OK"
            /\ scan_list[1].command = CommandOf("CMDAB")
            /\ scan_list[1].doffset = OffsetOf(seen.content[1], Len(Header) + 2)

\* the constructor has stored the scan of a complete header, a command line
\* that holds an abort notice and a data row
C18_Witness ==
    /\ FirstPassOn(Header \o <<"CMDAB", "ROW">>)
    /\ Len(scan_list) = 1
    /\ scan_list[1].command = CommandOf("CMDAB")
    /\ scan_list[1].command # CommandOf("CMD")

\* C18 as stated: a line that matches the abort pattern and the command
\* pattern is handled as an abort marker, that is, as the abort branch of
\* Parse handles a line in an open scan header
C18_Original ==
    \A k \in 1..Len(content[1]) :
        content[1][k] = "CMDAB"
          => \E st \in {StateBefore(content[1], k)} :
               (st.exc = "" /\ st.scan_started)
                 => Classify(st, Strip(Bytes(<<"CMDAB">>))) = AbortScan(st)

\* the lines a constructor has read, in the order of its calls of Parse,
\* each file followed by "EOF"
RECURSIVE StreamFrom(_)
StreamFrom(i) ==
    IF i > Len(parsed) THEN <<>>
    ELSE seen.content[parsed[i].nb] \o <<"EOF">> \o StreamFrom(i + 1)

\* line j of the stream comes after a scan-start line with neither a data
\* row nor the end of the file in between
InOpenHeader(st, j) ==
    \E r \in 1..(j - 1) : st[r] \in {"RUN1", "RUN2"} /\ \A q \in (r + 1)..(j - 1) : st[q] \notin {"ROW", "EOF"}

\* the scan-start lines of the stream whose scan gets a data row
ScanStarts(st) ==
    {r \in 1..Len(st) : st[r] \in {"RUN1", "RUN2"} /\ \E q \in (r + 1)..Len(st) : st[q] = "ROW" /\ \A p \in (r + 1)..(q - 1) : st[p] # "EOF"}

NthStart(st, k) == CHOOSE r \in ScanStarts(st) : Cardinality({x \in ScanStarts(st) : x < r}) = k - 1

\* the motor names of the line "MOT"
MotNames == SPEC_multi_blank2_split(Strip(From(LineText("MOT"), 5)))

\* the file-level names after the first j lines of the stream: those of the
\* motor-name lines outside scan headers since the last new-file-header line
RECURSIVE DefaultNames(_, _)
DefaultNames(st, j) ==
    IF j = 0 THEN <<>>
    ELSE IF st[j] = "E" THEN <<>>
    ELSE IF st[j] = "MOT" /\ ~InOpenHeader(st, j) THEN DefaultNames(st, j - 1) \o MotNames
    ELSE DefaultNames(st, j - 1)

\* scan k of the stream has no motor-name line in its header
NoOwnNames(st, k) ==
    \A j \in (NthStart(st, k) + 1)..Len(st) : (st[j] = "MOT" /\ InOpenHeader(st, j)) => \E q \in NthStart(st, k)..(j - 1) : st[q] = "ROW"

\* C19 (motor-name scoping): after a constructor, every scan with a data
\* row is stored once, and a scan whose header has no motor-name line
\* records the motor names found outside scan headers since the last
\* new-file-header line before its scan-start line; a new-file-header line
\* after the scan-start line changes nothing in them.
C19_MotorNameScoping ==
    constructed
      => \A st \in {StreamFrom(1)} :
           /\ Len(scan_list) = Cardinality(ScanStarts(st))
           /\ \A k \in 1..Len(scan_list) :
                NoOwnNames(st, k) => scan_list[k].imopnames = DefaultNames(st, NthStart(st, k) - 1)

\* a scan is stored with names of the file although a new-file-header line
\* came while its header was open, and the next scan is stored without names
C19_Witness ==
    /\ constructed
    /\ Len(scan_list) >= 2
    /\ scan_list[1].imopnames = MotNames
    /\ scan_list[2].imopnames = <<>>
    /\ scan_list[2].fname = scan_list[1].fname
    /\ \E j \in 1..Len(seen.content[1]) : seen.content[1][j] = "E" /\ InOpenHeader(seen.content[1], j) /\ j < RowAt(seen.content[1], 1)

\* the numbers a motor-position line adds: all of "#VAL 1 2", none of
\* "#VAL", the one before the token that is no number of "#VAL 3 x"
ValuesOf(l) ==
    IF l = "VAL" THEN <<1, 2>> ELSE IF l = "VALX" THEN <<3>> ELSE <<>>

\* the numbers of the motor-position lines of a header, in file order
RECURSIVE HeaderValues(_)
HeaderValues(h) ==
    IF h = <<>> THEN <<>> ELSE ValuesOf(Head(h)) \o HeaderValues(Tail(h))

\* C20 (motor-position lines): a pass over a file whose scan headers hold
\* motor-position lines that are empty or have a token that is no number
\* does not raise; every scan is stored by its data row with status OK and
\* that row's offset, and its motor values are the numbers of the
\* motor-position lines of its header in file order (of a line with a bad
\* token, those before that token).
C20_MotorPositions ==
    /\ \A i \in 1..Len(parsed) :
         (parsed[i].nb = 1 /\ HasScan(seen.content[1], 1)) => parsed[i].exc = ""
    /\ BuiltFromFile1
         => /\ Len(scan_list) = Cardinality({n \in 1..2 : HasScan(seen.content[1], n)})
            /\ \A k \in 1..Len(scan_list) :
                 /\ scan_list[k].scan_status = "OK"
                 /\ scan_list[k].doffset = OffsetOf(seen.content[1], RowAt(seen.content[1], k))
                 /\ scan_list[k].imopvalues = HeaderValues(HeaderOf(seen.content[1], k))

\* a scan is stored whose header has a complete motor-position line and
\* after it one with a token that is no number
C20_Witness ==
    /\ BuiltFromFile1
    /\ \E k \in 1..Len(scan_list) :
         /\ scan_list[k].imopvalues = <<1, 2, 3>>
         /\ scan_list[k].scan_status = "OK"
         /\ \E j \in 1..Len(HeaderOf(seen.content[1], k)) : HeaderOf(seen.content[1], k)[j] = "VALX"

\* the payload of a header line: the text after its five-character prefix
PayloadOf(l) == Strip(From(LineText(l), 5))

\* C21 (accumulators reset at every scan start): the command and the column
\* names of a stored scan come from lines of its own header, so a scan whose
\* header has no command line does not carry the command declared in an
\* earlier scan, and one whose header has no column line does not carry the
\* column names declared in an earlier scan.
C21_AccumulatorReset ==
    (BuiltFromFile1 /\ Len(scan_list) = 2)
      => \E h \in {HeaderOf(seen.content[1], 2)} :
           /\ (\A j \in 1..Len(h) : h[j] \notin {"CMD", "CMDAB"})
                => scan_list[2].command # scan_list[1].command
           /\ (\A j \in 1..Len(h) : h[j] # "COL")
                => scan_list[2].colnames # scan_list[1].colnames

\* C22 (byte-cursor exactness): the cursor of a pass is the offset at which
\* the line being classified begins.  Every stored scan has as header
\* offset the offset at which its scan-start line begins, and every data
\* offset that is recorded is the offset at which the first data row after
\* that scan-start line begins.  A pass that reads a file to its end
\* without finding a scan stops with the cursor at the length of the file.
C22_ByteCursor ==
    /\ \A k \in 1..Len(scan_list) :
         \E ls \in {content[scan_list[k].fname]} :
           \E i \in 1..Len(ls) :
             /\ OffsetOf(ls, i) = scan_list[k].hoffset
             /\ ls[i] = (IF scan_list[k].nr = 1 THEN "RUN1" ELSE "RUN2")
             /\ scan_list[k].doffset # None
                  => \E j \in (i + 1)..Len(ls) :
                       /\ OffsetOf(ls, j) = scan_list[k].doffset
                       /\ SPEC_dataline(LineText(ls[j]))
                       /\ \A q \in (i + 1)..(j - 1) : ~SPEC_dataline(LineText(ls[q]))
    /\ \A i \in 1..Len(parsed) :
         (parsed[i].exc = "IndexError" /\ parsed[i].nscans = 0)
           => parsed[i].end = Len(Bytes(seen.content[parsed[i].nb]))

\* the data of scan s in the lines ls of its file begin with a row and an
\* abort notice, followed by line l
RowAbortThen(s, ls, l) ==
    /\ s.doffset # None
    /\ \E j \in 1..(Len(ls) - 2) :
         /\ OffsetOf(ls, j) = s.doffset
         /\ ls[j] = "ROW"
         /\ ls[j + 1] = "ABORT"
         /\ ls[j + 2] = l

\* the step is a call of ReadData on scan i
ReadStep(i) == constructed /\ i \in 1..Len(scan_list) /\ op' = [name |-> "ReadData", scan |-> i] /\ content' = content /\ calls' = calls

\* C23 (abort and resume while reading data): a call of ReadData on a scan
\* with status OK whose data are a row, an abort notice and one more line
\* returns with the row before the notice in the table; the status is OK
\* when the line after the notice is a resume notice and ABORTED when it is
\* another line that is no comment.
C23_AbortResumeRead ==
    [][\A i \in 1..Len(scan_list) :
         \E ls \in {content[scan_list[i].fname]} :
           (ReadStep(i) /\ scan_list[i].scan_status = "OK")
             => /\ (\E l \in TailLines \ {"ATT", "ABORT"} : RowAbortThen(scan_list[i], ls, l))
                     => /\ exc' = ""
                        /\ scan_list'[i].data # NoTable
                /\ RowAbortThen(scan_list[i], ls, "RESUME")
                     => scan_list'[i].scan_status = "OK"
                /\ (\E l \in TailLines \ {"ATT", "ABORT", "RESUME"} : RowAbortThen(scan_list[i], ls, l))
                     => scan_list'[i].scan_status = "ABORTED"]_vars

\* the lines after the header of a file of SpecMca
McaTail(ls) == SubSeq(ls, Len(McaHeader) + 1, Len(ls))

\* one scalar line and the two lines of its spectrum
McaBlock == <<"ROW", "SPEC1", "SPEC2">>

\* t is n complete blocks, followed by nothing, by a block cut short or by
\* an abort notice and any lines
RECURSIVE IsBlocks(_, _)
IsBlocks(t, n) ==
    IF n = 0
    THEN t = <<>> \/ t = <<"ROW">> \/ t = <<"ROW", "SPEC1">> \/ t[1] = "ABORT"
    ELSE Len(t) >= 3 /\ SubSeq(t, 1, 3) = McaBlock /\ IsBlocks(SubSeq(t, 4, Len(t)), n - 1)

\* C24 (spectral row assembly): a call of ReadData on a scan with spectral
\* parameters whose data are n >= 1 complete blocks, then nothing, a block
\* cut short or an abort notice, returns with a table of n rows, each the
\* two scalars of its scalar line and one spectral field with the three
\* integers of its two spectral lines in order.
C24_SpectralRows ==
    [][\A n \in 1..2 :
         (ReadStep(1) /\ scan_list[1].has_mca /\ scan_list[1].scan_status = "OK"
            /\ StartsWith(content[1], McaHeader) /\ IsBlocks(McaTail(content[1]), n))
           => /\ exc' = ""
              /\ scan_list'[1].data = [k \in 1..n |-> <<1, 2, <<8, 9, 6>>>>]]_vars

\* the Parse calls of the log that returned
Returned(log) == Cardinality({i \in 1..Len(log) : log[i].exc = ""})

\* the Parse calls of the log of a step that were made on the PalSpecFile
\* the step leaves: those after the Update that raised when update_spec
\* has built a new one, and those up to the first that raised otherwise
OwnLog(log, replaced) ==
    LET raised == {i \in 1..Len(log) : log[i].exc # ""}
        first  == IF raised = {} THEN Len(log)
                  ELSE CHOOSE i \in raised : \A j \in raised : i <= j
    IN  IF replaced THEN SubSeq(log, first + 1, Len(log)) ELSE SubSeq(log, 1, first)

\* C25 (the discovery cursor never decreases): no step lowers curr_scan_nb,
\* not even an update_spec that replaces the PalSpecFile.  A constructor (also the one inside update_spec)
\* leaves it at or above its first value (the first number of the list, or
\* the start number); an Update, a parse_folders or an update_spec on the
\* same PalSpecFile at or above its value before, also when a Parse
\* raises; a Parse called by the client leaves it as it was.  Without a
\* list, a discovery pass has raised it by one for every Parse call on the
\* PalSpecFile that returned.
C25_CursorMonotone ==
    [][/\ curr_scan_nb' >= curr_scan_nb
       /\ (calls' = calls + 1 /\ constructed')
            => \E first \in {IF ~NewObjectStep THEN curr_scan_nb
                             ELSE IF scan_in_list' # <<>> THEN scan_in_list'[1]
                             ELSE IF op'.name = "update_spec" THEN pal.start_scan
                             ELSE StartScan1} :
                 /\ curr_scan_nb' >= first
                 /\ op'.name = "Parse" => curr_scan_nb' = first
                 /\ (scan_in_list' = <<>> /\ op'.name # "Parse")
                      => curr_scan_nb' = first + Returned(OwnLog(parsed', constructed /\ NewObjectStep))]_vars

\* an Update of an object with the list 2, 1 has parsed file 2 and skipped
\* file 1, which exists
C25_Witness ==
    /\ op.name = "Update"
    /\ scan_in_list = <<2, 1>>
    /\ seen.present = {1, 2}
    /\ Len(parsed) = 1
    /\ parsed[1].nb = 2
    /\ curr_scan_nb = 2

====
